---- MODULE Spec2Model ----
(***************************************************************************)
(* Model of the two programs of the repository:                            *)
(*   - ensembl_transcript_to_amino_acid_sequence.py: the HTTP function     *)
(*     make_inference, which resolves a batch of Ensembl transcript ids    *)
(*     through one REST lookup per non-empty id;                           *)
(*   - load_rsem_results_into_bq.py: the command-line loader that submits  *)
(*     a BigQuery load job and prints a one-line summary.                  *)
(* Text is modelled as a sequence of one-character strings, Python's       *)
(* Optional[str] as a record with a `none` flag.                           *)
(***************************************************************************)
EXTENDS Integers, Sequences, FiniteSets

VARIABLES
    pc,          \* position of make_inference: idle, loop, lookup, done, aborted
    calls,       \* request.get_json()['calls'] of the current invocation
    i,           \* index of the `for call in calls` loop (1-based)
    ensembl_id,  \* the local ensembl_id
    replies,     \* the local replies list
    response,    \* what make_inference returned to the framework
    log,         \* the requests.get calls of this invocation and their outcomes
    service,     \* the deterministic (mocked) lookup of DetSpec: key -> outcome
    remembered,  \* DetSpec: one earlier finished invocation, kept by the caller
    lpc,         \* position of the loader script
    args,        \* parser.parse_args()
    job,         \* job.result() of the load function
    stdout,      \* lines printed by the loader
    ret,         \* the value the load function returned to __main__
    exit_code    \* exit status of the loader process

resolverVars == <<pc, calls, i, ensembl_id, replies, response, log>>
detVars == <<service, remembered>>
loaderVars == <<lpc, args, job, stdout, ret, exit_code>>
vars == <<pc, calls, i, ensembl_id, replies, response, log, service,
          remembered, lpc, args, job, stdout, ret, exit_code>>

----------------------------------------------------------------------------
(* Bounds *)

MaxBatch == 2

MaxDetBatch == 2

----------------------------------------------------------------------------
(* Python values *)

PyNone == [none |-> TRUE, s |-> <<>>]

PyStr(s) == [none |-> FALSE, s |-> s]

\* `not x` for an Optional[str]: None and "" are falsy
Falsy(v) == v.none \/ v.s = <<>>

\* index of the first occurrence of sep in s, 0 when there is none
RECURSIVE find(_, _, _)
find(s, sep, k) ==
    IF k > Len(s) THEN 0
    ELSE IF s[k] = sep THEN k
    ELSE find(s, sep, k + 1)

\* index of the last occurrence of sep in s, 0 when there is none
RECURSIVE rfind(_, _, _)
rfind(s, sep, k) ==
    IF k < 1 THEN 0
    ELSE IF s[k] = sep THEN k
    ELSE rfind(s, sep, k - 1)

\* str.rsplit(sep, 1): cut once, at the last separator
rsplit_once(s, sep) ==
    LET k == rfind(s, sep, Len(s)) IN
    IF k = 0 THEN <<s>>
    ELSE <<SubSeq(s, 1, k - 1), SubSeq(s, k + 1, Len(s))>>

\* str.split(sep): the list of the segments between the separators
RECURSIVE split(_, _)
split(s, sep) ==
    LET k == find(s, sep, 1) IN
    IF k = 0 THEN <<s>>
    ELSE <<SubSeq(s, 1, k - 1)>> \o split(SubSeq(s, k + 1, Len(s)), sep)

\* ensembl_id.split(".")[0]
StripVersion(s) == split(s, ".")[1]

----------------------------------------------------------------------------
(* The lookup collaborator: what requests.get can do *)

HttpResponse(ok, text) == [kind |-> "response", ok |-> ok, text |-> text]

TransportFault == [kind |-> "fault", ok |-> FALSE, text |-> <<>>]

Pending == [kind |-> "pending", ok |-> FALSE, text |-> <<>>]

Outcomes ==
    { HttpResponse(TRUE, <<"M">>),
      HttpResponse(TRUE, <<>>),
      HttpResponse(TRUE, <<" ", "M">>),
      HttpResponse(FALSE, <<"E">>),
      TransportFault }

Returned(v) == [raised |-> FALSE, value |-> v]

Raised == [raised |-> TRUE, value |-> PyNone]

\* variants of the lookup wrapper with a plausible bug
convert_raise_for_status(r) ==
    IF r.kind = "fault" THEN Raised
    ELSE IF ~r.ok THEN Raised
    ELSE Returned(PyStr(r.text))

convert_catch_fault(r) ==
    IF r.kind = "fault" THEN Returned(PyNone)
    ELSE IF ~r.ok THEN Returned(PyNone)
    ELSE Returned(PyStr(r.text))

convert_empty_is_none(r) ==
    IF r.kind = "fault" THEN Raised
    ELSE IF ~r.ok \/ r.text = <<>> THEN Returned(PyNone)
    ELSE Returned(PyStr(r.text))

\* requests.get raised, or `if not r.ok: return None`, or `return r.text`
convert_transcript_id_to_amino_acid_sequence(r) ==
    IF r.kind = "fault" THEN Raised
    ELSE IF ~r.ok THEN Returned(PyNone)
    ELSE Returned(PyStr(r.text))

----------------------------------------------------------------------------
(* json.dumps({'replies': replies}) *)

JsonNull == <<"n", "u", "l", "l">>

JsonString(s) == <<"\"">> \o s \o <<"\"">>

JsonValue(v) == IF v.none THEN JsonNull ELSE JsonString(v.s)

JsonDumps(rs) == [sent |-> TRUE, replies |-> [k \in 1..Len(rs) |-> JsonValue(rs[k])]]

NoResponse == [sent |-> FALSE, replies |-> <<>>]

----------------------------------------------------------------------------
(* Inputs of make_inference *)

Identifiers ==
    { PyNone,
      PyStr(<<>>),
      PyStr(<<"b">>),
      PyStr(<<"a", ".", "1">>),
      PyStr(<<"a", ".", "1", ".", "2">>),
      PyStr(<<".", "a">>) }

DetIdentifiers ==
    { PyStr(<<>>), PyStr(<<"b">>), PyStr(<<"a", ".", "1">>) }

\* a call record is a list whose element 0 is the identifier
Call(id) == <<id>>

BatchesOf(ids, n) == UNION { [1..m -> {Call(id) : id \in ids}] : m \in 0..n }

Batches == BatchesOf(Identifiers, MaxBatch)

DetBatches == BatchesOf(DetIdentifiers, MaxDetBatch)

DetKeys == { StripVersion(id.s) : id \in {x \in DetIdentifiers : ~Falsy(x)} }

NotRemembered == [set |-> FALSE, calls |-> <<>>, response |-> NoResponse, between |-> FALSE]

----------------------------------------------------------------------------
(* Values of the loader *)

\* result.error_result: None, or the error dictionary of the job
NoError == [none |-> TRUE, empty |-> FALSE, reason |-> ""]

ErrorResult(reason) == [none |-> FALSE, empty |-> FALSE, reason |-> reason]

\* an error dictionary without entries
EmptyError == [none |-> FALSE, empty |-> TRUE, reason |-> ""]

\* `not result.error_result`: None and {} are falsy
NoErrorResult(e) == e.none \/ e.empty

\* job.result(): the finished job
LoadJob(job_id, error_result, state) ==
    [obtained |-> TRUE, job_id |-> job_id, error_result |-> error_result, state |-> state]

NoJob == [obtained |-> FALSE, job_id |-> "", error_result |-> NoError, state |-> ""]

JobResults ==
    { LoadJob(id, e, "DONE") :
        id \in {"job-1", "job-2"},
        e \in {NoError, EmptyError, ErrorResult("invalid"), ErrorResult("notFound")} }

\* what a load function handed back to __main__
NotCalled == [called |-> FALSE, none |-> TRUE, job_id |-> ""]

ReturnedNone == [called |-> TRUE, none |-> TRUE, job_id |-> ""]

ReturnedJob(j) == [called |-> TRUE, none |-> FALSE, job_id |-> j.job_id]

\* str() of the error dictionary, as the pieces of its text
StrError(e) == IF e.empty THEN <<"{}">> ELSE <<"{'reason': '", e.reason, "'}">>

\* print(text): the text goes to stdout, one entry per line of it
Write(out, text) == out \o split(text, "\n")

\* 'Job "{}" loaded without error. Current status is {}.'.format(...)
SuccessMessage(r) ==
    <<"Job \"", r.job_id, "\" loaded without error. Current status is ", r.state, ".">>

\* 'Error occurred while loading job "{}":\n{}\nCurrent status is {}.'.format(...)
FailureMessage(r) ==
    <<"Error occurred while loading job \"", r.job_id, "\":", "\n">>
        \o StrError(r.error_result)
        \o <<"\n", "Current status is ", r.state, ".">>

\* the prints of `if verbose is True` at the head of a load function
VerboseHead(out, a) ==
    IF a.verbose
    THEN Write(Write(Write(out,
             <<"results_path:", " ", "rsem.results">>),
             <<"table_id:", " ", "p.d.t">>),
             <<"sample_id:", " ", a.sample_id>>)
    ELSE out

\* print("results_df.shape:", results_df.shape)
VerboseShape(out, a, rows, columns) ==
    IF a.verbose
    THEN Write(out, <<"results_df.shape:", " ", "(", rows, ", ", columns, ")">>)
    ELSE out

\* pd.read_csv: the number of rows read, or the exception it raises
CsvOutcomes == {"0", "1", "FileNotFoundError", "EmptyDataError"}

CsvRaises(c) == c \in {"FileNotFoundError", "EmptyDataError"}

\* --results_type as typed, and argparse's choices
ResultsTypeArgs == {"gene", "isoform", "Gene", "exon"}

Choices == {"gene", "isoform"}

\* str.lower() on the values of --results_type
Lower(s) == IF s = "Gene" THEN "gene" ELSE s

\* --verbose as typed ("<absent>": the flag is not given), and type=bool on it
VerboseArgs == {"<absent>", "", "True", "False"}

ParseVerbose(v) == IF v = "<absent>" THEN FALSE ELSE v # ""

----------------------------------------------------------------------------
(* Initial state *)

ResolverInit ==
    /\ pc = "idle"
    /\ calls = <<>>
    /\ i = 1
    /\ ensembl_id = PyNone
    /\ replies = <<>>
    /\ response = NoResponse
    /\ log = <<>>

LoaderInit ==
    /\ lpc = "start"
    /\ args = [parsed |-> FALSE, results_type |-> "", sample_id |-> "", verbose |-> FALSE]
    /\ job = NoJob
    /\ stdout = <<>>
    /\ ret = NotCalled
    /\ exit_code = -1

Init ==
    /\ ResolverInit
    /\ LoaderInit
    /\ service = [k \in DetKeys |-> TransportFault]
    /\ remembered = NotRemembered

----------------------------------------------------------------------------
(* make_inference *)

\* the framework calls make_inference: lines 68-69 bind fresh locals
Invoke_keep_replies(batch) ==
    /\ pc \in {"idle", "done", "aborted"}
    /\ calls' = batch
    /\ replies' = replies
    /\ i' = 1
    /\ ensembl_id' = PyNone
    /\ response' = NoResponse
    /\ log' = <<>>
    /\ pc' = "loop"

Invoke(batch) ==
    /\ pc \in {"idle", "done", "aborted"}
    /\ calls' = batch
    /\ replies' = <<>>
    /\ i' = 1
    /\ ensembl_id' = PyNone
    /\ response' = NoResponse
    /\ log' = <<>>
    /\ pc' = "loop"

\* the emptiness test of line 73, and a variant that only tests for None
IsNoneOnly(v) == v.none

IsEmptyIdentifier(v) == Falsy(v)

\* lines 72-75 without the append
SkipEmpty_no_append ==
    /\ pc = "loop"
    /\ i <= Len(calls)
    /\ IsEmptyIdentifier(calls[i][1])
    /\ ensembl_id' = calls[i][1]
    /\ replies' = replies
    /\ i' = i + 1
    /\ UNCHANGED <<pc, calls, response, log>>

\* lines 72-75: an empty identifier gets None and no lookup
SkipEmpty ==
    /\ pc = "loop"
    /\ i <= Len(calls)
    /\ IsEmptyIdentifier(calls[i][1])
    /\ ensembl_id' = calls[i][1]
    /\ replies' = Append(replies, PyNone)
    /\ i' = i + 1
    /\ UNCHANGED <<pc, calls, response, log>>

\* lines 72-73, 77-78 and 25-27: normalize and issue the GET
SendLookup ==
    /\ pc = "loop"
    /\ i <= Len(calls)
    /\ ~IsEmptyIdentifier(calls[i][1])
    /\ ensembl_id' = PyStr(StripVersion(calls[i][1].s))
    /\ log' = Append(log, [pos |-> i, key |-> ensembl_id'.s, out |-> Pending])
    /\ pc' = "lookup"
    /\ UNCHANGED <<calls, i, replies, response>>

\* a variant of the completion that sends the request again after a non-success status
RecvLookup_retry(o) ==
    /\ pc = "lookup"
    /\ log' = [log EXCEPT ![Len(log)].out = o]
    /\ LET r == convert_transcript_id_to_amino_acid_sequence(o) IN
        IF r.raised
        THEN /\ pc' = "aborted"
             /\ UNCHANGED <<i, replies>>
        ELSE IF r.value.none /\ (Len(log) = 1 \/ log[Len(log) - 1].pos # i)
        THEN /\ pc' = "loop"
             /\ UNCHANGED <<i, replies>>
        ELSE /\ replies' = Append(replies, r.value)
             /\ i' = i + 1
             /\ pc' = "loop"
    /\ UNCHANGED <<calls, ensembl_id, response>>

\* lines 27-31 and 78-79: the GET completes with outcome o
RecvLookup(o) ==
    /\ pc = "lookup"
    /\ log' = [log EXCEPT ![Len(log)].out = o]
    /\ LET r == convert_transcript_id_to_amino_acid_sequence(o) IN
        IF r.raised
        THEN /\ pc' = "aborted"
             /\ UNCHANGED <<i, replies>>
        ELSE /\ replies' = Append(replies, r.value)
             /\ i' = i + 1
             /\ pc' = "loop"
    /\ UNCHANGED <<calls, ensembl_id, response>>

\* line 81
Return ==
    /\ pc = "loop"
    /\ i > Len(calls)
    /\ response' = JsonDumps(replies)
    /\ pc' = "done"
    /\ UNCHANGED <<calls, i, ensembl_id, replies, log>>

Request == \E batch \in Batches : Invoke(batch) /\ UNCHANGED <<detVars, loaderVars>>

Skip == SkipEmpty /\ UNCHANGED <<detVars, loaderVars>>

Send == SendLookup /\ UNCHANGED <<detVars, loaderVars>>

Recv == \E o \in Outcomes : RecvLookup(o) /\ UNCHANGED <<detVars, loaderVars>>

Reply == Return /\ UNCHANGED <<detVars, loaderVars>>

Next == Request \/ Skip \/ Send \/ Recv \/ Reply

Spec == Init /\ [][Next]_vars

----------------------------------------------------------------------------
(* make_inference against a deterministic lookup *)

Remembering(batch) ==
    IF remembered.set /\ batch # remembered.calls
    THEN [remembered EXCEPT !.between = TRUE]
    ELSE remembered

DetRequest ==
    \E batch \in DetBatches :
        /\ Invoke(batch)
        /\ remembered' = Remembering(batch)
        /\ UNCHANGED <<service, loaderVars>>

DetRecv == RecvLookup(service[ensembl_id.s]) /\ UNCHANGED <<detVars, loaderVars>>

\* the caller keeps what one finished invocation produced
Remember ==
    /\ pc \in {"done", "aborted"}
    /\ ~remembered.set
    /\ remembered' = [set |-> TRUE, calls |-> calls, response |-> response, between |-> FALSE]
    /\ UNCHANGED <<resolverVars, service, loaderVars>>

DetInit ==
    /\ ResolverInit
    /\ LoaderInit
    /\ service \in [DetKeys -> Outcomes]
    /\ remembered = NotRemembered

DetNext == DetRequest \/ Skip \/ Send \/ DetRecv \/ Reply \/ Remember

DetSpec == DetInit /\ [][DetNext]_vars

----------------------------------------------------------------------------
(* load_rsem_results_into_bq.py *)

\* lines 150-192: parse_args exits with status 2 on a value outside the choices
ParseArgs ==
    /\ lpc = "start"
    /\ \E rt \in ResultsTypeArgs, v \in VerboseArgs, sid \in {"s1", "s2"} :
        IF rt \in Choices
        THEN /\ args' = [parsed |-> TRUE, results_type |-> rt, sample_id |-> sid,
                         verbose |-> ParseVerbose(v)]
             /\ lpc' = "main"
             /\ UNCHANGED exit_code
        ELSE /\ exit_code' = 2
             /\ lpc' = "exited"
             /\ UNCHANGED args
    /\ UNCHANGED <<job, stdout, ret>>

\* lines 194-195 and 35-66: the gene path up to the submission of the job
load_gene_results_read ==
    /\ lpc = "main"
    /\ Lower(args.results_type) = "gene"
    /\ \E c \in CsvOutcomes :
        IF CsvRaises(c)
        THEN /\ stdout' = VerboseHead(stdout, args)
             /\ exit_code' = 1
             /\ lpc' = "exited"
        ELSE /\ stdout' = VerboseShape(VerboseHead(stdout, args), args, c, "8")
             /\ lpc' = "gene_job"
             /\ UNCHANGED exit_code
    /\ UNCHANGED <<args, job, ret>>

\* lines 201-202 and 104-135: the isoform path up to the submission of the job
load_isoform_results_read ==
    /\ lpc = "main"
    /\ Lower(args.results_type) # "gene"
    /\ Lower(args.results_type) = "isoform"
    /\ \E c \in CsvOutcomes :
        IF CsvRaises(c)
        THEN /\ stdout' = VerboseHead(stdout, args)
             /\ exit_code' = 1
             /\ lpc' = "exited"
        ELSE /\ stdout' = VerboseShape(VerboseHead(stdout, args), args, c, "9")
             /\ lpc' = "isoform_job"
             /\ UNCHANGED exit_code
    /\ UNCHANGED <<args, job, ret>>

\* a variant of the gene path that ends the process with status 1 after the failure message
load_gene_results_execute_exit_1 ==
    /\ lpc = "gene_job"
    /\ \/ /\ exit_code' = 1
          /\ lpc' = "exited"
          /\ UNCHANGED <<job, stdout, ret>>
       \/ \E result \in JobResults :
            /\ job' = result
            /\ IF NoErrorResult(result.error_result)
               THEN /\ stdout' = Write(stdout, SuccessMessage(result))
                    /\ ret' = ReturnedNone
                    /\ lpc' = "returned"
                    /\ UNCHANGED exit_code
               ELSE /\ stdout' = Write(stdout, FailureMessage(result))
                    /\ exit_code' = 1
                    /\ lpc' = "exited"
                    /\ UNCHANGED ret
    /\ UNCHANGED args

\* lines 68-77: job.result() raises, or the summary is printed and the function ends
load_gene_results_execute ==
    /\ lpc = "gene_job"
    /\ \/ /\ exit_code' = 1
          /\ lpc' = "exited"
          /\ UNCHANGED <<job, stdout, ret>>
       \/ \E result \in JobResults :
            /\ job' = result
            /\ stdout' = IF NoErrorResult(result.error_result)
                         THEN Write(stdout, SuccessMessage(result))
                         ELSE Write(stdout, FailureMessage(result))
            /\ ret' = ReturnedNone
            /\ lpc' = "returned"
            /\ UNCHANGED exit_code
    /\ UNCHANGED args

\* lines 137-146: job.result() raises, or the summary is printed and the function ends
load_isoform_results_execute ==
    /\ lpc = "isoform_job"
    /\ \/ /\ exit_code' = 1
          /\ lpc' = "exited"
          /\ UNCHANGED <<job, stdout, ret>>
       \/ \E result \in JobResults :
            /\ job' = result
            /\ stdout' = IF NoErrorResult(result.error_result)
                         THEN Write(stdout, SuccessMessage(result))
                         ELSE Write(stdout, FailureMessage(result))
            /\ ret' = ReturnedNone
            /\ lpc' = "returned"
            /\ UNCHANGED exit_code
    /\ UNCHANGED args

\* the script runs off its end: line 207 (parse_args admits only the two choices, so the
\* else branch of lines 208-209 is never taken)
Exit ==
    /\ lpc = "returned"
    /\ exit_code' = 0
    /\ lpc' = "exited"
    /\ UNCHANGED <<args, job, stdout, ret>>

LoadParse == ParseArgs /\ UNCHANGED <<resolverVars, detVars>>

GeneRead == load_gene_results_read /\ UNCHANGED <<resolverVars, detVars>>

IsoformRead == load_isoform_results_read /\ UNCHANGED <<resolverVars, detVars>>

GeneExecute == load_gene_results_execute /\ UNCHANGED <<resolverVars, detVars>>

IsoformExecute == load_isoform_results_execute /\ UNCHANGED <<resolverVars, detVars>>

LoadExit == Exit /\ UNCHANGED <<resolverVars, detVars>>

LoadNext ==
    LoadParse \/ GeneRead \/ IsoformRead \/ GeneExecute \/ IsoformExecute \/ LoadExit

LoadSpec == Init /\ [][LoadNext]_vars

----------------------------------------------------------------------------
(* What the claims compare the program with *)

HasDot(s) == \E k \in 1..Len(s) : s[k] = "."

\* the part of s before its first '.', stated without split
PrefixBeforeFirstDot(s) ==
    CHOOSE p \in {SubSeq(s, 1, n) : n \in 0..Len(s)} :
        /\ ~HasDot(p)
        /\ (Len(p) = Len(s) \/ s[Len(p) + 1] = ".")

Success(o) == o.kind = "response" /\ o.ok

NonSuccess(o) == o.kind = "response" /\ ~o.ok

IsFault(o) == o.kind = "fault"

LookupsAt(k) == {n \in 1..Len(log) : log[n].pos = k}

OutcomeAt(k) == IF LookupsAt(k) = {} THEN Pending ELSE log[CHOOSE n \in LookupsAt(k) : TRUE].out

\* the reply the specification gives position k, from calls[k][0] and the outcome of its own lookup
ExpectedReply(id, o) ==
    IF id.none \/ id.s = <<>> THEN JsonNull
    ELSE IF Success(o) THEN JsonString(o.text)
    ELSE JsonNull

\* the positions up to k whose identifier is not empty, in input order
RECURSIVE NonEmptyPositions(_)
NonEmptyPositions(k) ==
    IF k = 0 THEN <<>>
    ELSE IF calls[k][1].none \/ calls[k][1].s = <<>> THEN NonEmptyPositions(k - 1)
    ELSE Append(NonEmptyPositions(k - 1), k)

\* the positions the loop has reached
Reached == IF pc \in {"lookup", "aborted"} THEN i ELSE i - 1

----------------------------------------------------------------------------
(* Claims on make_inference *)

\* C1: when every issued lookup returned a response the invocation is not aborted, and the
\* replies list it returns has the length of calls, with replies[k] the result for calls[k]:
\* a function of calls[k][0] and the outcome of the lookup of position k alone.
C1_RepliesMirrorCalls ==
    /\ (pc = "aborted" => \E n \in 1..Len(log) : IsFault(log[n].out))
    /\ (pc \in {"loop", "done"} => Len(replies) = i - 1)
    /\ (pc = "done" =>
           /\ response.sent
           /\ Len(response.replies) = Len(calls)
           /\ \A k \in 1..Len(calls) :
                  response.replies[k] = ExpectedReply(calls[k][1], OutcomeAt(k)))

C1_Witness ==
    /\ pc = "done"
    /\ Len(calls) = 2
    /\ calls[1][1] = PyStr(<<"a", ".", "1">>)
    /\ calls[2][1] = PyStr(<<>>)
    /\ Success(OutcomeAt(1))
    /\ response.replies = <<JsonString(<<"M">>), JsonNull>>

\* C2: a position whose identifier is empty or null gets the absent marker and no lookup is
\* issued for it; an all-empty batch returns an all-absent list of its length with no lookup.
C2_EmptyIdentifierNoLookup ==
    /\ \A n \in 1..Len(log) : ~Falsy(calls[log[n].pos][1])
    /\ \A k \in 1..Len(calls) :
           (Falsy(calls[k][1]) /\ k <= Reached) => (k <= Len(replies) /\ replies[k] = PyNone)
    /\ (pc = "done" =>
           \A k \in 1..Len(calls) :
               Falsy(calls[k][1]) => (k <= Len(response.replies) /\ response.replies[k] = JsonNull))
    /\ ((pc = "done" /\ \A k \in 1..Len(calls) : Falsy(calls[k][1])) =>
           /\ log = <<>>
           /\ response.replies = [k \in 1..Len(calls) |-> JsonNull])

C2_Witness ==
    /\ pc = "done"
    /\ calls = <<Call(PyStr(<<>>)), Call(PyNone)>>
    /\ log = <<>>
    /\ response.replies = <<JsonNull, JsonNull>>

C4_KeyIsPrefixBeforeFirstDot ==
    \A n \in 1..Len(log) :
        LET id == calls[log[n].pos][1].s IN
        /\ log[n].key = PrefixBeforeFirstDot(id)
        /\ (~HasDot(id) => log[n].key = id)
        /\ (id[1] = "." => log[n].key = <<>>)

C4_Witness ==
    /\ Len(log) = 2
    /\ calls[log[1].pos][1] = PyStr(<<".", "a">>)
    /\ log[1].key = <<>>
    /\ calls[log[2].pos][1] = PyStr(<<"a", ".", "1", ".", "2">>)
    /\ log[2].key = <<"a">>

\* C5: after a success status the reply is the response body as returned; an empty body gives
\* the empty string, which the response keeps apart from the absent marker.
C5_SuccessBodyVerbatim ==
    \A n \in 1..Len(log) :
        Success(log[n].out) =>
            /\ log[n].pos <= Len(replies)
            /\ replies[log[n].pos] = PyStr(log[n].out.text)
            /\ replies[log[n].pos] # PyNone
            /\ (pc = "done" =>
                   /\ response.replies[log[n].pos] = JsonString(log[n].out.text)
                   /\ response.replies[log[n].pos] # JsonNull)

C5_Witness ==
    /\ pc = "done"
    /\ Len(log) = 2
    /\ log[1].out = HttpResponse(TRUE, <<>>)
    /\ log[2].out = HttpResponse(TRUE, <<" ", "M">>)
    /\ response.replies = <<<<"\"", "\"">>, <<"\"", " ", "M", "\"">>>>

\* C6: a transport fault during one lookup aborts the batch: no response is produced and no
\* lookup follows the faulted one.
C6_FaultAbortsBatch ==
    /\ \A n \in 1..Len(log) :
           IsFault(log[n].out) => (n = Len(log) /\ pc = "aborted" /\ ~response.sent)
    /\ (pc = "aborted" => response = NoResponse)

C6_Witness ==
    /\ pc = "aborted"
    /\ Len(calls) = 2
    /\ Len(log) = 1
    /\ log[1].pos = 1
    /\ ~Falsy(calls[2][1])
    /\ ~response.sent

\* C7: the lookups of a batch are the normalized non-empty identifiers in input order, one
\* request each (none cached, none repeated), each completed before the next is issued.
C7_SequentialOneLookupEach ==
    /\ LET ps == NonEmptyPositions(Reached) IN
           /\ Len(log) = Len(ps)
           /\ \A n \in 1..Len(log) :
                  /\ log[n].pos = ps[n]
                  /\ log[n].key = PrefixBeforeFirstDot(calls[ps[n]][1].s)
    /\ \A n \in 1..Len(log) : (n < Len(log) => log[n].out # Pending)
    /\ (pc = "lookup" <=> (Len(log) > 0 /\ log[Len(log)].out = Pending))

C7_Witness ==
    /\ pc = "done"
    /\ Len(calls) = 2
    /\ calls[1] = calls[2]
    /\ Len(log) = 2
    /\ log[1].key = log[2].key
    /\ NonSuccess(log[1].out)
    /\ Success(log[2].out)

\* C8: against a deterministic lookup, an invocation on a batch that was resolved before,
\* with other batches resolved in between, ends as the earlier one did, with the same replies.
C8_SameBatchSameReplies ==
    (pc \in {"done", "aborted"} /\ remembered.set /\ remembered.calls = calls) =>
        response = remembered.response

C8_Witness ==
    /\ pc = "done"
    /\ remembered.set
    /\ remembered.between
    /\ remembered.calls = calls
    /\ Len(calls) = 2
    /\ Len(log) = 2
    /\ response = remembered.response

----------------------------------------------------------------------------
(* Claims on the loader *)

\* the lines printed before the summary: those of `verbose`
DebugLines == IF args.verbose THEN 4 ELSE 0

SummaryLines == SubSeq(stdout, DebugLines + 1, Len(stdout))

Finished == lpc \in {"returned", "exited"} /\ job.obtained

C10_ReturnsLoadJob ==
    (ret.called /\ job.obtained) => (~ret.none /\ ret.job_id = job.job_id)

====
